---- MODULE Spec2Model ----
(***************************************************************************)
(* MatrixUser (src/unnamed/part_000) and RemoteRoom                        *)
(* (src/src/models/rooms/remote.js) of matrix-appservice-bridge.           *)
(*                                                                         *)
(* A JavaScript string is modelled as the sequence of its UTF-16 code      *)
(* units (natural numbers): "@a:h" is <<64, 97, 58, 104>>.  The inputs     *)
(* are drawn from the Basic Multilingual Plane, so a code unit is a code   *)
(* point and `new Set(string)` iterates unit by unit.                      *)
(*                                                                         *)
(* A JavaScript object used as a data bag lives in `heap`; an instance     *)
(* holds a reference (an index into heap), as `this._data = data || {}`    *)
(* stores the caller's object itself and not a copy of it.                 *)
(***************************************************************************)
EXTENDS Integers, Sequences, FiniteSets, TLC

VARIABLES
    ESCAPE_DEFAULT, \* MatrixUser.ESCAPE_DEFAULT, the process-wide flag
    heap,           \* the plain objects alive: heap[r] is a function key -> value
    held,           \* the objects the callers hold a reference to
    users,          \* the MatrixUser instances, in order of construction
    rooms,          \* the RemoteRoom instances, in order of construction
    calls,          \* history, per MatrixUser: how it was constructed and escaped
    last            \* history: the most recent call: the method, the instance, and
                    \* the userId and the kind of data a constructor was given

vars == <<ESCAPE_DEFAULT, heap, held, users, rooms, calls, last>>

(***************************************************************************)
(* Bounds of the model.                                                    *)
(***************************************************************************)
MaxLen == 3        \* longest localpart drawn in SpecEscape
MaxUsers == 2      \* MatrixUser instances alive in Spec
MaxRooms == 1      \* RemoteRoom instances alive in Spec
MaxStored == 1     \* MatrixUser instances alive in SpecUser
MaxEscapes == 2    \* escapeUserId() runs per instance, the constructor's included

(***************************************************************************)
(* Characters.                                                             *)
(***************************************************************************)
AT == 64           \* "@"
COLON == 58        \* ":"
EQUALS == 61       \* "="

\* "undefined", what a template literal makes of the value undefined
UndefinedText == <<117, 110, 100, 101, 102, 105, 110, 101, 100>>

\* the JavaScript value undefined, and a defined string value
Undefined == [def |-> FALSE, s |-> <<>>]
Str(s) == [def |-> TRUE, s |-> s]

(***************************************************************************)
(* The escaping algorithm, MatrixUser.prototype.escapeUserId.              *)
(***************************************************************************)

\* the pattern without "=": a mutant of IsAllowed
IsAllowedNoEquals(c) ==
    \/ c \in 65..90
    \/ c \in 97..122
    \/ c \in 48..57
    \/ c \in {45, 46, 95}

\* one character matched by /([A-Z]|[a-z]|[0-9]|-|\.|=|_)+/
IsAllowed(c) ==
    \/ c \in 65..90       \* [A-Z]
    \/ c \in 97..122      \* [a-z]
    \/ c \in 48..57       \* [0-9]
    \/ c \in {45, 46, EQUALS, 95}   \* - . = _

\* the distinct elements of s, in order of first occurrence: new Set(s)
RECURSIVE SetOf(_)
SetOf(s) ==
    IF s = <<>> THEN <<>>
    ELSE LET init == SetOf(SubSeq(s, 1, Len(s) - 1))
             c == s[Len(s)]
         IN  IF \E j \in 1..Len(init) : init[j] = c THEN init ELSE Append(init, c)

\* localpart.replace(/(allowed)+/g, ""): what is left are the bad characters
StripAllowed(s) == SelectSeq(s, LAMBDA c : ~IsAllowed(c))

\* badChars, in the Set's iteration order (insertion order)
BadChars(localpart) == SetOf(StripAllowed(localpart))

\* one hexadecimal digit of Number.prototype.toString(16): 0-9, a-f
HexDigit(d) == IF d < 10 THEN 48 + d ELSE 97 + (d - 10)

\* n.toString(16): no leading zeros, as many digits as n needs
RECURSIVE ToString16(_)
ToString16(n) ==
    IF n < 16 THEN <<HexDigit(n)>>
    ELSE Append(ToString16(n \div 16), HexDigit(n % 16))

\* String.prototype.toLowerCase on the characters toString(16) can produce
ToLowerCase(s) == [j \in 1..Len(s) |-> IF s[j] \in 65..90 THEN s[j] + 32 ELSE s[j]]

\* "%" in place of "=": a mutant of Replacement
ReplacementPercent(c) == <<37>> \o ToLowerCase(ToString16(c))

\* `=${hex}` with hex = c.charCodeAt(0).toString(16).toLowerCase()
Replacement(c) == <<EQUALS>> \o ToLowerCase(ToString16(c))

\* res.replace(new RegExp(`\\${c}`, "g"), r): every occurrence of c becomes r
RECURSIVE ReplaceAll(_, _, _)
ReplaceAll(s, c, r) ==
    IF s = <<>> THEN <<>>
    ELSE (IF Head(s) = c THEN r ELSE <<Head(s)>>) \o ReplaceAll(Tail(s), c, r)

\* badChars.forEach(...) over the characters of `order`, one replace-all each
RECURSIVE EscapeInOrder(_, _)
EscapeInOrder(res, order) ==
    IF order = <<>> THEN res
    ELSE EscapeInOrder(ReplaceAll(res, Head(order), Replacement(Head(order))), Tail(order))

\* the value escapeUserId assigns to this.localpart
EscapedLocalpart(localpart) == EscapeInOrder(localpart, BadChars(localpart))

\* `${host}`: undefined becomes the text "undefined"
HostText(host) == IF host.def THEN host.s ELSE UndefinedText

\* the fields after escapeUserId: localpart escaped, userId rebuilt
Escaped(u) ==
    LET lp == EscapedLocalpart(u.localpart)
    IN  [u EXCEPT !.localpart = lp,
                  !.userId = <<AT>> \o lp \o <<COLON>> \o HostText(u.host)]

(***************************************************************************)
(* Parsing of the user id in the constructor.                              *)
(***************************************************************************)

\* the index of the first ":" of s, or 0
FirstColon(s) ==
    IF \E j \in 1..Len(s) : s[j] = COLON
    THEN CHOOSE j \in 1..Len(s) : s[j] = COLON /\ \A h \in 1..(j - 1) : s[h] # COLON
    ELSE 0

\* s.split(":"): the pieces between the colons, all of them
RECURSIVE Split(_)
Split(s) ==
    LET j == FirstColon(s)
    IN  IF j = 0 THEN <<s>>
        ELSE <<SubSeq(s, 1, j - 1)>> \o Split(SubSeq(s, j + 1, Len(s)))

\* s.substring(1)
Substring1(s) == SubSeq(s, 2, Len(s))

\* split[1]: the second piece, undefined when there is none
SplitHost(userId) ==
    LET split == Split(userId)
    IN  IF Len(split) >= 2 THEN Str(split[2]) ELSE Undefined

\* this.userId, this.localpart and this.host as the constructor first sets them
Parsed(userId) ==
    [userId |-> userId,
     localpart |-> Substring1(Split(userId)[1]),
     host |-> SplitHost(userId)]

\* the fields of new MatrixUser(userId, data, escape) once it returns
Fields(userId, escape) == IF escape THEN Escaped(Parsed(userId)) ELSE Parsed(userId)

(***************************************************************************)
(* Values and arguments.                                                   *)
(***************************************************************************)

\* the keys the bridge stores under; displayName and localpart are reserved
Keys == {"displayName", "localpart"}

\* the object literal {}
EmptyBag == [k \in {} |-> <<>>]

\* bag[key], undefined when the key is absent
BagGet(bag, key) == IF key \in DOMAIN bag THEN Str(bag[key]) ELSE Undefined

\* bag[key] = val
BagSet(bag, key, val) ==
    [k \in (DOMAIN bag) \cup {key} |-> IF k = key THEN val ELSE bag[k]]

\* the kinds of value a caller passes as `data`
DataKinds ==
    {"undefined", "null", "zero", "emptystring", "false",
     "number", "string", "true", "array", "object"}

\* JavaScript truthiness of a value of that kind
Truthy(kind) == kind \in {"number", "string", "true", "array", "object"}

\* Object.prototype.toString.call(value) for a value of that kind
ToStringTag(kind) ==
    CASE kind = "undefined" -> "[object Undefined]"
      [] kind = "null" -> "[object Null]"
      [] kind \in {"zero", "number"} -> "[object Number]"
      [] kind \in {"emptystring", "string"} -> "[object String]"
      [] kind \in {"false", "true"} -> "[object Boolean]"
      [] kind = "array" -> "[object Array]"
      [] OTHER -> "[object Object]"

\* a value that is no object; ref names the object when kind is "object"
\* (0: an object the caller has just made, holding lit)
Prim(kind) == [kind |-> kind, ref |-> 0, lit |-> EmptyBag]

\* the default fixed to true: a mutant of DefaultEscape
DefaultEscapeFixed(escape, flag) == IF escape.def THEN escape.v ELSE TRUE

\* escape=MatrixUser.ESCAPE_DEFAULT: an omitted argument takes the flag as it
\* is at the call
DefaultEscape(escape, flag) == IF escape.def THEN escape.v ELSE flag

\* a call: the method and the instance it ran on (0: none was made)
Call(op, i) == [op |-> op, i |-> i, userId |-> Undefined, data |-> ""]

(***************************************************************************)
(* MatrixUser.                                                             *)
(***************************************************************************)

\* the error new MatrixUser(userId, data, ...) throws, "" when it throws none
CtorError(userId, data) ==
    IF ~userId.def \/ userId.s = <<>> THEN "Missing user_id"
    ELSE IF Truthy(data.kind) /\ ToStringTag(data.kind) # "[object Object]"
         THEN "data arg must be an Object"
         ELSE ""

\* new MatrixUser(userId, data, escape); nothing is made when it throws
MatrixUser(userId, data, escape) ==
    LET esc == DefaultEscape(escape, ESCAPE_DEFAULT)
        err == CtorError(userId, data)
        f == Fields(userId.s, esc)
        shared == data.kind = "object" /\ data.ref # 0
        ref == IF shared THEN data.ref ELSE Len(heap) + 1
    IN  /\ last' = [Call("MatrixUser", IF err = "" THEN Len(users) + 1 ELSE 0)
                      EXCEPT !.userId = userId, !.data = data.kind]
        /\ IF err # ""
           THEN UNCHANGED <<heap, held, users, calls>>
           ELSE /\ heap' = IF shared THEN heap
                           ELSE Append(heap, IF data.kind = "object"
                                             THEN data.lit ELSE EmptyBag)
                /\ held' = IF data.kind = "object" THEN held \cup {ref} ELSE held
                /\ users' = Append(users, [userId |-> f.userId,
                                           localpart |-> f.localpart,
                                           host |-> f.host, _data |-> ref])
                /\ calls' = Append(calls,
                       [userId |-> userId.s,
                        escape |-> escape,
                        read |-> IF escape.def THEN [def |-> FALSE, v |-> FALSE]
                                 ELSE [def |-> TRUE, v |-> ESCAPE_DEFAULT],
                        escaped |-> esc,
                        runs |-> IF esc THEN 1 ELSE 0,
                        pre |-> Parsed(userId.s)])
        /\ UNCHANGED <<ESCAPE_DEFAULT, rooms>>

\* what getId() returns
getId(i) == users[i].userId

\* what get(key) returns
get(i, key) == BagGet(heap[users[i]._data], key)

\* what getDisplayName() returns
getDisplayName(i) == BagGet(heap[users[i]._data], "displayName")

\* MatrixUser.prototype.getId
GetId(i) ==
    /\ last' = Call("getId", i)
    /\ UNCHANGED <<ESCAPE_DEFAULT, heap, held, users, rooms, calls>>

\* MatrixUser.prototype.getDisplayName
GetDisplayName(i) ==
    /\ last' = Call("getDisplayName", i)
    /\ UNCHANGED <<ESCAPE_DEFAULT, heap, held, users, rooms, calls>>

\* MatrixUser.prototype.setDisplayName
SetDisplayName(i, name) ==
    /\ heap' = [heap EXCEPT ![users[i]._data] = BagSet(@, "displayName", name)]
    /\ last' = Call("setDisplayName", i)
    /\ UNCHANGED <<ESCAPE_DEFAULT, held, users, rooms, calls>>

\* MatrixUser.prototype.set
Set(i, key, val) ==
    /\ heap' = [heap EXCEPT ![users[i]._data] = BagSet(@, key, val)]
    /\ last' = Call("set", i)
    /\ UNCHANGED <<ESCAPE_DEFAULT, held, users, rooms, calls>>

\* MatrixUser.prototype.get
Get(i, key) ==
    /\ last' = Call("get", i)
    /\ UNCHANGED <<ESCAPE_DEFAULT, heap, held, users, rooms, calls>>

\* serialize() that returns the bag as it is: a mutant of Serialized
SerializedAsIs(bag, localpart) == bag

\* this._data.localpart = this.localpart
Serialized(bag, localpart) == BagSet(bag, "localpart", localpart)

\* MatrixUser.prototype.serialize: returns this._data, the bag itself
Serialize(i) ==
    /\ heap' = [heap EXCEPT ![users[i]._data] = Serialized(@, users[i].localpart)]
    /\ held' = held \cup {users[i]._data}
    /\ last' = Call("serialize", i)
    /\ UNCHANGED <<ESCAPE_DEFAULT, users, rooms, calls>>

\* MatrixUser.prototype.escapeUserId
EscapeUserId(i) ==
    /\ calls[i].runs < MaxEscapes
    /\ users' = [users EXCEPT ![i] = Escaped(@)]
    /\ calls' = [calls EXCEPT ![i].runs = @ + 1,
                              ![i].pre = [userId |-> users[i].userId,
                                          localpart |-> users[i].localpart,
                                          host |-> users[i].host]]
    /\ last' = Call("escapeUserId", i)
    /\ UNCHANGED <<ESCAPE_DEFAULT, heap, held, rooms>>

\* MatrixUser.ESCAPE_DEFAULT = flag
SetEscapeDefault(flag) ==
    /\ ESCAPE_DEFAULT' = flag
    /\ last' = Call("ESCAPE_DEFAULT", 0)
    /\ UNCHANGED <<heap, held, users, rooms, calls>>

(***************************************************************************)
(* RemoteRoom.                                                             *)
(***************************************************************************)

\* new RemoteRoom(identifier, data): no argument is checked, and a truthy
\* data is kept whatever it is
RemoteRoom(identifier, data) ==
    LET shared == data.kind = "object" /\ data.ref # 0
        fresh == ~Truthy(data.kind) \/ (data.kind = "object" /\ data.ref = 0)
        ref == IF shared THEN data.ref ELSE IF fresh THEN Len(heap) + 1 ELSE 0
    IN  /\ heap' = IF fresh
                   THEN Append(heap, IF data.kind = "object" THEN data.lit ELSE EmptyBag)
                   ELSE heap
        /\ held' = IF data.kind = "object" THEN held \cup {ref} ELSE held
        /\ rooms' = Append(rooms, [roomId |-> identifier,
                                   data |-> [isObj |-> shared \/ fresh, ref |-> ref]])
        /\ last' = Call("RemoteRoom", Len(rooms) + 1)
        /\ UNCHANGED <<ESCAPE_DEFAULT, users, calls>>

\* what RemoteRoom's getId() returns
roomGetId(i) == rooms[i].roomId

\* what RemoteRoom's get(key) returns: a primitive this.data has none of the keys
roomGet(i, key) ==
    IF rooms[i].data.isObj THEN BagGet(heap[rooms[i].data.ref], key) ELSE Undefined

\* RemoteRoom.prototype.getId
RoomGetId(i) ==
    /\ last' = Call("room.getId", i)
    /\ UNCHANGED <<ESCAPE_DEFAULT, heap, held, users, rooms, calls>>

\* RemoteRoom.prototype.serialize: returns this.data itself
RoomSerialize(i) ==
    /\ held' = IF rooms[i].data.isObj THEN held \cup {rooms[i].data.ref} ELSE held
    /\ last' = Call("room.serialize", i)
    /\ UNCHANGED <<ESCAPE_DEFAULT, heap, users, rooms, calls>>

\* RemoteRoom.prototype.get
RoomGet(i, key) ==
    /\ last' = Call("room.get", i)
    /\ UNCHANGED <<ESCAPE_DEFAULT, heap, held, users, rooms, calls>>

\* RemoteRoom.prototype.set: assigning a property of a primitive does nothing
\* (the module is not in strict mode)
RoomSet(i, key, val) ==
    /\ heap' = IF rooms[i].data.isObj
               THEN [heap EXCEPT ![rooms[i].data.ref] = BagSet(@, key, val)]
               ELSE heap
    /\ last' = Call("room.set", i)
    /\ UNCHANGED <<ESCAPE_DEFAULT, held, users, rooms, calls>>

(***************************************************************************)
(* The inputs and the specifications.                                      *)
(***************************************************************************)

\* all the strings over chars of length at most n
RECURSIVE Strings(_, _)
Strings(chars, n) ==
    IF n = 0 THEN {<<>>}
    ELSE LET shorter == Strings(chars, n - 1)
         IN  shorter \cup {Append(s, c) : s \in shorter, c \in chars}

\* the values a caller stores: "v"
Vals == {<<118>>}

\* the bag a store hands back to the constructor: {localpart: "zz"}
StoredBags == {[k \in {"localpart"} |-> <<122, 122>>]}

\* the escape argument: omitted, true, false
EscapeArgs == {[def |-> FALSE, v |-> FALSE], [def |-> TRUE, v |-> TRUE],
               [def |-> TRUE, v |-> FALSE]}

\* the data argument: every kind of primitive, an array, a new object, or an
\* object the caller holds (one it made before, or one serialize() returned)
DataArgs ==
    {Prim(kind) : kind \in DataKinds \ {"object"}}
    \cup {[kind |-> "object", ref |-> 0, lit |-> bag] : bag \in StoredBags}
    \cup {[kind |-> "object", ref |-> r, lit |-> EmptyBag] : r \in held}

\* the data argument of a RemoteRoom, as documented: omitted, null or an object
RoomDataArgs == {d \in DataArgs : d.kind \in {"undefined", "null", "object"}}

\* the user ids of Spec and SpecUser: absent, "" and "@ :h"
UserIdArgs == {Undefined, Str(<<>>), Str(<<AT, 32, COLON, 104>>)}

\* the room identifiers: "r"
RoomIds == {<<114>>}

\* the characters of a localpart in SpecEscape:
\* "a" "A" "=" "/" " " tab and the euro sign (U+20AC)
LocalChars == {97, 65, EQUALS, 47, 32, 9, 8364}

\* what follows the localpart: nothing, ":h", ":h:8"
Tails == {<<>>, <<COLON, 104>>, <<COLON, 104, COLON, 56>>}

\* the user ids of SpecEscape: the sigil, a localpart, a tail
EscapeUserIds ==
    {<<AT>> \o lp \o tail : lp \in Strings(LocalChars, MaxLen), tail \in Tails}

Init ==
    /\ ESCAPE_DEFAULT = TRUE
    /\ heap = <<>>
    /\ held = {}
    /\ users = <<>>
    /\ rooms = <<>>
    /\ calls = <<>>
    /\ last = Call("", 0)

NewUser ==
    /\ Len(users) < MaxUsers
    /\ \E userId \in UserIdArgs, data \in DataArgs, escape \in EscapeArgs :
           MatrixUser(userId, data, escape)

NewRoom ==
    /\ Len(rooms) < MaxRooms
    /\ \E identifier \in RoomIds, data \in RoomDataArgs :
           RemoteRoom(identifier, data)

CallGetId == \E i \in 1..Len(users) : GetId(i)

CallGetDisplayName == \E i \in 1..Len(users) : GetDisplayName(i)

CallSetDisplayName == \E i \in 1..Len(users), name \in Vals : SetDisplayName(i, name)

CallSet == \E i \in 1..Len(users), key \in Keys, val \in Vals : Set(i, key, val)

CallGet == \E i \in 1..Len(users), key \in Keys : Get(i, key)

CallSerialize == \E i \in 1..Len(users) : Serialize(i)

CallEscapeUserId == \E i \in 1..Len(users) : EscapeUserId(i)

CallSetEscapeDefault == \E flag \in BOOLEAN : SetEscapeDefault(flag)

CallRoomGetId == \E i \in 1..Len(rooms) : RoomGetId(i)

CallRoomSerialize == \E i \in 1..Len(rooms) : RoomSerialize(i)

CallRoomGet == \E i \in 1..Len(rooms), key \in Keys : RoomGet(i, key)

CallRoomSet == \E i \in 1..Len(rooms), key \in Keys, val \in Vals : RoomSet(i, key, val)

\* Spec: the two classes and their data bags, which instances may share
Next ==
    \/ NewUser
    \/ NewRoom
    \/ CallGetId
    \/ CallGetDisplayName
    \/ CallSetDisplayName
    \/ CallSet
    \/ CallGet
    \/ CallSerialize
    \/ CallRoomGetId
    \/ CallRoomSerialize
    \/ CallRoomGet
    \/ CallRoomSet

Spec == Init /\ [][Next]_vars

\* SpecUser: the MatrixUser instances of a store that keeps what serialize()
\* returns and hands it back to the constructor
NewStoredUser ==
    /\ Len(users) < MaxStored
    /\ \E userId \in UserIdArgs, data \in DataArgs, escape \in EscapeArgs :
           MatrixUser(userId, data, escape)

NextUser ==
    \/ NewStoredUser
    \/ CallSetDisplayName
    \/ CallSet
    \/ CallSerialize
    \/ CallEscapeUserId

SpecUser == Init /\ [][NextUser]_vars

\* SpecEscape: one MatrixUser, its user id drawn from EscapeUserIds, escaped at
\* construction or later, and escaped again, while the flag changes
NewEscapeUser ==
    /\ users = <<>>
    /\ \E userId \in EscapeUserIds, escape \in EscapeArgs :
           MatrixUser(Str(userId), Prim("undefined"), escape)

NextEscape ==
    \/ NewEscapeUser
    \/ CallEscapeUserId
    \/ CallSetEscapeDefault

SpecEscape == Init /\ [][NextEscape]_vars

(***************************************************************************)
(* The claims.                                                             *)
(***************************************************************************)

\* the elements of a sequence
Range(s) == {s[j] : j \in 1..Len(s)}

\* the orders in which the elements of S can be visited
Perms(S) ==
    {f \in [1..Cardinality(S) -> S] : \A a, b \in 1..Cardinality(S) : a # b => f[a] # f[b]}

\* how often c occurs in s
Count(c, s) == Cardinality({j \in 1..Len(s) : s[j] = c})

\* the identifier grammar's characters: a-z, 0-9, "-", ".", "=", "_", and A-Z
GrammarChar(c) == c \in (97..122) \cup (48..57) \cup {45, 46, 61, 95} \cup (65..90)

OnlyGrammarChars(s) == \A j \in 1..Len(s) : GrammarChar(s[j])

\* the localpart the constructor parsed for instance i, before any escaping
RawLocalpart(i) == Parsed(calls[i].userId).localpart

\* C1: for every MatrixUser, after construction (escape true or false) and
\* after any escapeUserId, getId() = "@" + localpart + ":" + host
IdIsLocalpartAndHost ==
    \A i \in 1..Len(users) :
        getId(i) = <<AT>> \o users[i].localpart \o <<COLON>> \o HostText(users[i].host)

\* "=" and exactly two lowercase hexadecimal digits that encode c
TwoDigitEscape(c) == <<61, HexDigit((c \div 16) % 16), HexDigit(c % 16)>>

\* s with every character outside the pattern replaced by its two-digit escape
RECURSIVE TwoDigitEscaped(_)
TwoDigitEscaped(s) ==
    IF s = <<>> THEN <<>>
    ELSE (IF IsAllowed(Head(s)) THEN <<Head(s)>> ELSE TwoDigitEscape(Head(s)))
         \o TwoDigitEscaped(Tail(s))

\* C2: escaping replaces every occurrence of every disallowed character c by
\* "=" and exactly two lowercase hexadecimal digits encoding c's code point,
\* whatever the code point (below 16 and above 255 included)
EscapesAreTwoDigits ==
    \A i \in 1..Len(users) :
        calls[i].runs >= 1 =>
            /\ \A c \in Range(calls[i].pre.localpart) : ~IsAllowed(c) => c < 256
            /\ users[i].localpart = TwoDigitEscaped(calls[i].pre.localpart)

\* everything after the first ":" of s
AfterFirstColon(s) == SubSeq(s, FirstColon(s) + 1, Len(s))

\* C3: the constructor splits userId at the first ":" only: localpart is what
\* precedes it without the first character, host is everything after it, and
\* the escaped getId() still ends with the full host
SplitsAtFirstColon ==
    \A i \in 1..Len(users) :
        LET uid == calls[i].userId
            j == FirstColon(uid)
            id == getId(i)
            rest == <<COLON>> \o AfterFirstColon(uid)
        IN  j > 0 =>
              /\ users[i].host = Str(AfterFirstColon(uid))
              /\ calls[i].runs = 0 => users[i].localpart = SubSeq(uid, 2, j - 1)
              /\ calls[i].runs >= 1 =>
                    /\ Len(id) >= Len(rest)
                    /\ SubSeq(id, Len(id) - Len(rest) + 1, Len(id)) = rest

\* the userId is empty or absent, or data is supplied and is no plain object
MustBeRejected(userId, kind) ==
    \/ ~userId.def
    \/ userId.s = <<>>
    \/ kind \notin {"undefined", "object"}

\* C4: construction fails whenever userId is empty or absent or data is
\* supplied and is not a plain object (null, 0, "" and false included), and
\* succeeds otherwise
RejectsBadArguments ==
    last.op = "MatrixUser" =>
        ((last.i = 0) <=> MustBeRejected(last.userId, last.data))

\* C5: escaping leaves every allowed character unchanged, the allowed
\* characters being those of the grammar, A-Z and "/": a localpart of allowed
\* characters is unchanged, and "/" and uppercase letters stay as they are
KeepsAllowedChars ==
    \A i \in 1..Len(users) :
        calls[i].runs >= 1 =>
            LET before == calls[i].pre.localpart
                after == users[i].localpart
            IN  /\ (\A c \in Range(before) : GrammarChar(c) \/ c = 47) => after = before
                /\ \A c \in {47} \cup (65..90) : Count(c, after) = Count(c, before)

\* the escape value the constructor of instance i was to use: the argument,
\* or the flag as it was at the call when the argument was omitted
EffectiveEscape(i) ==
    IF calls[i].escape.def THEN calls[i].escape.v ELSE calls[i].read.v

FlagDecidesAtConstruction ==
    \A i \in 1..Len(users) :
        /\ calls[i].escaped = EffectiveEscape(i)
        /\ calls[i].escaped => OnlyGrammarChars(users[i].localpart)
        /\ ~calls[i].escaped /\ calls[i].runs = 0 =>
              /\ getId(i) = calls[i].userId
              /\ users[i].localpart = RawLocalpart(i)

FlagChangeKeepsInstances ==
    ESCAPE_DEFAULT' # ESCAPE_DEFAULT => users' = users /\ heap' = heap

\* C6: a construction that omits escape escapes exactly when the flag is true
\* at that moment, one that passes escape ignores the flag, and changing the
\* flag changes nothing of the instances constructed before
FlagAffectsOnlyLaterConstructions ==
    []FlagDecidesAtConstruction /\ [][FlagChangeKeepsInstances]_vars

\* an instance made with the argument omitted while the flag was false, not
\* escaped, still unescaped now that the flag is true again
FlagWitness ==
    \E i \in 1..Len(users) :
        /\ ~calls[i].escape.def
        /\ ~calls[i].read.v
        /\ ESCAPE_DEFAULT
        /\ calls[i].runs = 0
        /\ ~OnlyGrammarChars(users[i].localpart)

\* C7: the mapping serialize() returns has key localpart equal to the
\* instance's current localpart, and every other key as it was before the call
SerializeInjectsLocalpart ==
    [][\A i \in 1..Len(users) :
          Serialize(i) =>
              LET ret == heap'[users[i]._data]
              IN  /\ BagGet(ret, "localpart") = Str(users'[i].localpart)
                  /\ \A key \in Keys \ {"localpart"} :
                        BagGet(ret, key) = BagGet(heap[users[i]._data], key)]_vars

\* serialize() has just returned for an escaped instance whose bag holds a
\* display name and held another localpart before
SerializeWitness ==
    /\ last.op = "serialize"
    /\ LET i == last.i
       IN  /\ users[i].localpart # RawLocalpart(i)
           /\ get(i, "localpart") = Str(users[i].localpart)
           /\ get(i, "displayName").def

\* C8: escaping is idempotent on the localpart: a localpart of allowed
\* characters is returned unchanged, the result of one escapeUserId holds
\* allowed characters only, a second escapeUserId changes neither localpart
\* nor userId, and neither does constructing anew from the escaped getId()
EscapingIsIdempotent ==
    \A i \in 1..Len(users) :
        calls[i].runs >= 1 =>
            /\ OnlyGrammarChars(calls[i].pre.localpart) =>
                  users[i].localpart = calls[i].pre.localpart
            /\ OnlyGrammarChars(users[i].localpart)
            /\ calls[i].runs >= 2 =>
                  /\ users[i].localpart = calls[i].pre.localpart
                  /\ users[i].userId = calls[i].pre.userId
            /\ Fields(getId(i), TRUE).localpart = users[i].localpart
            /\ Fields(getId(i), TRUE).userId = getId(i)

\* escapeUserId has run twice on a localpart that held a disallowed character
IdempotentWitness ==
    \E i \in 1..Len(users) :
        /\ calls[i].runs >= 2
        /\ ~OnlyGrammarChars(RawLocalpart(i))
        /\ users[i].localpart # RawLocalpart(i)

\* every other instance reads what it read before
OthersUnchanged(isUser, i) ==
    /\ \A j \in 1..Len(users) :
          (~isUser \/ j # i) =>
              /\ getId(j)' = getId(j)
              /\ \A k \in Keys : get(j, k)' = get(j, k)
    /\ \A j \in 1..Len(rooms) :
          (isUser \/ j # i) =>
              /\ roomGetId(j)' = roomGetId(j)
              /\ \A k \in Keys : roomGet(j, k)' = roomGet(j, k)

\* C9: set(k, v) changes exactly entry k of exactly that instance: get(k)
\* then returns v, the other keys and getId() are as before, and what every
\* other instance returns is unchanged, also when it shares the initial data
SetChangesOneEntryOfOneInstance ==
    [][/\ \A i \in 1..Len(users), key \in Keys, val \in Vals :
             Set(i, key, val) =>
                 /\ get(i, key)' = Str(val)
                 /\ \A k \in Keys \ {key} : get(i, k)' = get(i, k)
                 /\ getId(i)' = getId(i)
                 /\ OthersUnchanged(TRUE, i)
       /\ \A i \in 1..Len(rooms), key \in Keys, val \in Vals :
             RoomSet(i, key, val) =>
                 /\ roomGet(i, key)' = Str(val)
                 /\ \A k \in Keys \ {key} : roomGet(i, k)' = roomGet(i, k)
                 /\ roomGetId(i)' = roomGetId(i)
                 /\ OthersUnchanged(FALSE, i)]_vars

\* C10: the localpart escapeUserId produces is the same for every order of
\* the distinct disallowed characters, as no replacement text holds a
\* character that a later step replaces
OrderDoesNotMatter ==
    \A i \in 1..Len(users) :
        calls[i].runs >= 1 =>
            LET before == calls[i].pre.localpart
                bad == Range(BadChars(before))
            IN  /\ \A order \in Perms(bad) :
                      EscapeInOrder(before, order) = users[i].localpart
                /\ \A c \in bad : Range(Replacement(c)) \cap bad = {}

\* escapeUserId has run on a localpart with two disallowed characters and "="
OrderWitness ==
    \E i \in 1..Len(users) :
        /\ calls[i].runs >= 1
        /\ Cardinality(Range(BadChars(calls[i].pre.localpart))) >= 2
        /\ EQUALS \in Range(calls[i].pre.localpart)

====
